---- MODULE Spec2Model ----
(***************************************************************************)
(* Model of src/src/flexcomm.rs (embassy-imxrt): the reference-counted     *)
(* Flexcomm clock enablement (State, FlexcommRef), the clock-mux           *)
(* sequencing of FlexcommLowLevel::enable / disable for the macro          *)
(* generated instances 0..7 and the hand-written FLEXCOMM14 / FLEXCOMM15,   *)
(* and the into_<mode> personality writes.                                 *)
(***************************************************************************)
EXTENDS Integers, FiniteSets, Sequences, TLC

(***************************************************************************)
(* Bounds of the exploration.                                              *)
(***************************************************************************)
\* enable and into_<mode> calls in one run, over all instances
MaxCalls == 2
\* live handles per instance in the specifications Spec, SpecPair, SpecConc
MaxHandles == 3
\* live handles of the one instance driven by SpecWide / SpecConcWide:
\* enough for the 8-bit refcount to wrap and one more clone
WideHandles == 258
\* execution contexts of the interleaved specifications
NumCtx == 2
\* runs of the disable callback per instance after which no handle is dropped
MaxDisables == 3

(***************************************************************************)
(* Program constants.                                                      *)
(***************************************************************************)
\* refcount: AtomicU8 -- fetch_add / fetch_sub wrap modulo 2^8
RefcountModulus == 256

\* enum Clock
Clock == {"Sfro", "Ffro", "AudioPll", "Master", "FcnFrgMain", "FcnFrgPll",
          "FcnFrgSfro", "FcnFrgFfro", "None"}

\* impl_flexcomm! invoked for the indices 0 .. 13
Uniform_fourteen == 0 .. 13

\* impl_flexcomm!(0, 1, 2, 3, 4, 5, 6, 7)
Uniform == {0, 1, 2, 3, 4, 5, 6, 7}
\* the hand-written impl FlexcommLowLevel for FLEXCOMM14 / FLEXCOMM15
Special == {14, 15}
\* every type that implements FlexcommLowLevel
Instances == Uniform \cup Special

\* The instances whose state the model carries: one instance of the macro
\* body (all eight are expansions of the same text) and both special ones.
Driven == {2, 14, 15}
\* The instance driven up to WideHandles handles.
WideDriven == {2}

\* the personalities of the into_mode! invocations
Modes == {"usart", "spi", "i2c", "i2s_transmit", "i2s_receive"}

Ctx == 1 .. NumCtx

VARIABLES
    st,       \* per instance: the static State, the registers, the bookkeeping
    aborted,  \* the assert_eq! of FlexcommRef::new has panicked
    pending,  \* per context: the instances whose drop has decremented 1 -> 0
              \* and has not yet called disable_fn
    calls,    \* enable and into_<mode> calls made so far
    pc        \* per context: the call it is inside, statement by statement

vars == <<st, aborted, pending, calls, pc>>

(***************************************************************************)
(* Atomic refcount arithmetic.                                             *)
(***************************************************************************)
fetch_add(v) == (v + 1) % RefcountModulus

fetch_sub(v) == (v + RefcountModulus - 1) % RefcountModulus

(***************************************************************************)
(* crate::clocks collaborator (not part of flexcomm.rs): the bus clock     *)
(* gate and reset line of one instance, with the number of calls.          *)
(***************************************************************************)
enable_and_reset(s) == [s EXCEPT !.clk = TRUE, !.ungates = @ + 1]

clocks_disable(s) == [s EXCEPT !.clk = FALSE, !.gates = @ + 1]

(***************************************************************************)
(* impl_flexcomm! body, instances 0..7.                                    *)
(***************************************************************************)
\* fcfclksel with the None arm leaving the slow oscillator selected
fcfclksel_idx_none_slip(clk) ==
    CASE clk = "Sfro" -> "sfro_clk"
      [] clk = "Ffro" -> "ffro_clk"
      [] clk = "AudioPll" -> "audio_pll_clk"
      [] clk = "Master" -> "master_clk"
      [] clk \in {"FcnFrgMain", "FcnFrgPll", "FcnFrgSfro", "FcnFrgFfro"} ->
            "fcn_frg_clk"
      [] clk = "None" -> "sfro_clk"

fcfclksel_idx(clk) ==
    CASE clk = "Sfro" -> "sfro_clk"
      [] clk = "Ffro" -> "ffro_clk"
      [] clk = "AudioPll" -> "audio_pll_clk"
      [] clk = "Master" -> "master_clk"
      [] clk = "FcnFrgMain" -> "fcn_frg_clk"
      [] clk = "FcnFrgPll" -> "fcn_frg_clk"
      [] clk = "FcnFrgSfro" -> "fcn_frg_clk"
      [] clk = "FcnFrgFfro" -> "fcn_frg_clk"
      [] clk = "None" -> "none"

frgclksel_idx(clk) ==
    CASE clk = "FcnFrgMain" -> "main_clk"
      [] clk = "FcnFrgPll" -> "frg_pll_clk"
      [] clk = "FcnFrgSfro" -> "sfro_clk"
      [] clk = "FcnFrgFfro" -> "ffro_clk"
      [] OTHER -> "none"

frgctl_mult_idx == 0

enable_regs_idx(s, clk) ==
    enable_and_reset([s EXCEPT !.fcfclksel = fcfclksel_idx(clk),
                               !.frgclksel = frgclksel_idx(clk),
                               !.mult = frgctl_mult_idx])

disable_idx(s) ==
    clocks_disable([s EXCEPT !.fcfclksel = "none", !.frgclksel = "none"])

(***************************************************************************)
(* impl FlexcommLowLevel for FLEXCOMM14.                                   *)
(***************************************************************************)
\* fc14fclksel with the Master arm copied from the AudioPll arm
fc14fclksel_master_slip(clk) ==
    CASE clk = "Sfro" -> "sfro_clk"
      [] clk = "Ffro" -> "ffro_clk"
      [] clk = "AudioPll" -> "audio_pll_clk"
      [] clk = "Master" -> "audio_pll_clk"
      [] clk \in {"FcnFrgMain", "FcnFrgPll", "FcnFrgSfro", "FcnFrgFfro"} ->
            "fcn_frg_clk"
      [] clk = "None" -> "none"

fc14fclksel(clk) ==
    CASE clk = "Sfro" -> "sfro_clk"
      [] clk = "Ffro" -> "ffro_clk"
      [] clk = "AudioPll" -> "audio_pll_clk"
      [] clk = "Master" -> "master_clk"
      [] clk = "FcnFrgMain" -> "fcn_frg_clk"
      [] clk = "FcnFrgPll" -> "fcn_frg_clk"
      [] clk = "FcnFrgSfro" -> "fcn_frg_clk"
      [] clk = "FcnFrgFfro" -> "fcn_frg_clk"
      [] clk = "None" -> "none"

frg14clksel(clk) ==
    CASE clk = "FcnFrgMain" -> "main_clk"
      [] clk = "FcnFrgPll" -> "frg_pll_clk"
      [] clk = "FcnFrgSfro" -> "sfro_clk"
      [] clk = "FcnFrgFfro" -> "ffro_clk"
      [] OTHER -> "none"

frg14ctl_mult == 0

enable_regs_14(s, clk) ==
    enable_and_reset([s EXCEPT !.fcfclksel = fc14fclksel(clk),
                               !.frgclksel = frg14clksel(clk),
                               !.mult = frg14ctl_mult])

disable_14(s) ==
    clocks_disable([s EXCEPT !.fcfclksel = "none", !.frgclksel = "none"])

(***************************************************************************)
(* impl FlexcommLowLevel for FLEXCOMM15.                                   *)
(***************************************************************************)
fc15fclksel(clk) ==
    CASE clk = "Sfro" -> "sfro_clk"
      [] clk = "Ffro" -> "ffro_clk"
      [] clk = "AudioPll" -> "audio_pll_clk"
      [] clk = "Master" -> "master_clk"
      [] clk = "FcnFrgMain" -> "fcn_frg_clk"
      [] clk = "FcnFrgPll" -> "fcn_frg_clk"
      [] clk = "FcnFrgSfro" -> "fcn_frg_clk"
      [] clk = "FcnFrgFfro" -> "fcn_frg_clk"
      [] clk = "None" -> "none"

\* frg15clksel with the FcnFrgPll arm selecting the main clock
frg15clksel_pll_slip(clk) ==
    CASE clk = "FcnFrgMain" -> "main_clk"
      [] clk = "FcnFrgPll" -> "main_clk"
      [] clk = "FcnFrgSfro" -> "sfro_clk"
      [] clk = "FcnFrgFfro" -> "ffro_clk"
      [] OTHER -> "none"

frg15clksel(clk) ==
    CASE clk = "FcnFrgMain" -> "main_clk"
      [] clk = "FcnFrgPll" -> "frg_pll_clk"
      [] clk = "FcnFrgSfro" -> "sfro_clk"
      [] clk = "FcnFrgFfro" -> "ffro_clk"
      [] OTHER -> "none"

frg15ctl_mult == 0

enable_regs_15(s, clk) ==
    enable_and_reset([s EXCEPT !.fcfclksel = fc15fclksel(clk),
                               !.frgclksel = frg15clksel(clk),
                               !.mult = frg15ctl_mult])

\* disable without the write to frg15clksel
disable_15_keeps_frg(s) == clocks_disable([s EXCEPT !.fcfclksel = "none"])

disable_15(s) ==
    clocks_disable([s EXCEPT !.fcfclksel = "none", !.frgclksel = "none"])

(***************************************************************************)
(* Dispatch on the implementing type T (T::enable, T::disable).            *)
(***************************************************************************)
enable_regs(i, s, clk) ==
    CASE i = 14 -> enable_regs_14(s, clk)
      [] i = 15 -> enable_regs_15(s, clk)
      [] OTHER -> enable_regs_idx(s, clk)

disable(i, s) ==
    LET d == CASE i = 14 -> disable_14(s)
               [] i = 15 -> disable_15(s)
               [] OTHER -> disable_idx(s)
    IN  [d EXCEPT !.disables = @ + 1]

(***************************************************************************)
(* FlexcommRef: new, Clone, Drop.                                          *)
(***************************************************************************)
\* FlexcommRef::new without the assertion
new_assert_missing(pre) == TRUE

\* assert_eq!(state.refcount.fetch_add(1, AcqRel), 0): pre is the value read
new_assert(pre) == pre = 0

\* FlexcommRef::new testing the refcount before it touches it
FlexcommRef_new_checks_first(s) ==
    IF new_assert(s.refcount)
    THEN [s EXCEPT !.refcount = fetch_add(@), !.live = @ + 1, !.enables = @ + 1]
    ELSE s

\* FlexcommRef::new: the increment happens whether or not the assert holds;
\* a handle exists (live, enables) only when it does.
FlexcommRef_new(s) ==
    IF new_assert(s.refcount)
    THEN [s EXCEPT !.refcount = fetch_add(@), !.live = @ + 1, !.enables = @ + 1]
    ELSE [s EXCEPT !.refcount = fetch_add(@)]

\* Clone::clone
clone(s) == [s EXCEPT !.refcount = fetch_add(@), !.live = @ + 1]

\* Drop::drop comparing the value after the decrement with 1
drop_disables_off_by_one(pre) == pre = 2

\* Drop::drop: if fetch_sub(1) == 1 { disable_fn() }
drop_disables(pre) == pre = 1

drop_dec(s) == [s EXCEPT !.refcount = fetch_sub(@), !.live = @ - 1]

drop(i, s) ==
    IF drop_disables(s.refcount) THEN disable(i, drop_dec(s)) ELSE drop_dec(s)

\* T::enable(clk): the register writes, enable_and_reset, FlexcommRef::new
\* (src records the clk argument of the call)
enable(i, s, clk) == FlexcommRef_new(enable_regs(i, [s EXCEPT !.src = clk], clk))

(***************************************************************************)
(* The same handlers on the whole register file f, with the static State   *)
(* each implementation hands out.                                          *)
(***************************************************************************)
\* one static STATE shared by every implementation
StateOf_shared(i) == 2

\* T::state(): the static STATE declared inside the implementation for T
StateOf(i) == i

\* the value T::enable writes to the primary mux of T
fclksel_of(i, clk) ==
    CASE i = 14 -> fc14fclksel(clk)
      [] i = 15 -> fc15fclksel(clk)
      [] OTHER -> fcfclksel_idx(clk)

\* the value T::enable writes to the generator mux of T
frgclksel_of(i, clk) ==
    CASE i = 14 -> frg14clksel(clk)
      [] i = 15 -> frg15clksel(clk)
      [] OTHER -> frgclksel_idx(clk)

\* the value T::enable writes to the multiplier of T
frgctl_mult_of(i) ==
    CASE i = 14 -> frg14ctl_mult
      [] i = 15 -> frg15ctl_mult
      [] OTHER -> frgctl_mult_idx

\* T::enable with the handle built before the clock is ungated
enable_step_new_first(f, i, clk, k) ==
    CASE k = 1 -> [f EXCEPT ![i] = [@ EXCEPT !.fcfclksel = fclksel_of(i, clk),
                                             !.src = clk]]
      [] k = 2 -> [f EXCEPT ![i] = [@ EXCEPT !.frgclksel = frgclksel_of(i, clk)]]
      [] k = 3 -> [f EXCEPT ![i] = [@ EXCEPT !.mult = frgctl_mult_of(i)]]
      [] k = 4 -> [f EXCEPT ![StateOf(i)] = FlexcommRef_new(@)]
      [] k = 5 -> [f EXCEPT ![i] = enable_and_reset(@)]

\* statement k of T::enable(clk), in the order of the source text
enable_step(f, i, clk, k) ==
    CASE k = 1 -> [f EXCEPT ![i] = [@ EXCEPT !.fcfclksel = fclksel_of(i, clk),
                                             !.src = clk]]
      [] k = 2 -> [f EXCEPT ![i] = [@ EXCEPT !.frgclksel = frgclksel_of(i, clk)]]
      [] k = 3 -> [f EXCEPT ![i] = [@ EXCEPT !.mult = frgctl_mult_of(i)]]
      [] k = 4 -> [f EXCEPT ![i] = enable_and_reset(@)]
      [] k = 5 -> [f EXCEPT ![StateOf(i)] = FlexcommRef_new(@)]

\* T::enable(clk), all five statements
enable_on(f, i, clk) ==
    enable_step(enable_step(enable_step(enable_step(enable_step(
        f, i, clk, 1), i, clk, 2), i, clk, 3), i, clk, 4), i, clk, 5)

\* Clone::clone of a handle made by T::enable
clone_on(f, i) == [f EXCEPT ![StateOf(i)] = clone(@)]

\* Drop::drop of a handle made by T::enable: the decrement ...
drop_dec_on(f, i) == [f EXCEPT ![StateOf(i)] = drop_dec(@)]

\* ... and disable_fn = T::disable
disable_on(f, i) == [f EXCEPT ![i] = disable(i, @)]

drop_on(f, i) ==
    IF drop_disables(f[StateOf(i)].refcount)
    THEN disable_on(drop_dec_on(f, i), i)
    ELSE drop_dec_on(f, i)

(***************************************************************************)
(* into_mode!: the types each Into<Mode> trait is implemented for, and     *)
(* the PSELID.PERSEL write of into_<mode>().                               *)
(***************************************************************************)
\* into_mode!(i2c, ...) with FLEXCOMM14 in its list as well
IntoMode_14_i2c(m) ==
    CASE m = "usart" -> {0, 1, 2, 3, 4, 5, 6, 7}
      [] m = "spi" -> {0, 1, 2, 3, 4, 5, 6, 7, 14}
      [] m = "i2c" -> {0, 1, 2, 3, 4, 5, 6, 7, 14, 15}
      [] m = "i2s_transmit" -> {0, 1, 2, 3, 4, 5, 6, 7}
      [] m = "i2s_receive" -> {0, 1, 2, 3, 4, 5, 6, 7}

IntoMode(m) ==
    CASE m = "usart" -> {0, 1, 2, 3, 4, 5, 6, 7}
      [] m = "spi" -> {0, 1, 2, 3, 4, 5, 6, 7, 14}
      [] m = "i2c" -> {0, 1, 2, 3, 4, 5, 6, 7, 15}
      [] m = "i2s_transmit" -> {0, 1, 2, 3, 4, 5, 6, 7}
      [] m = "i2s_receive" -> {0, 1, 2, 3, 4, 5, 6, 7}

\* into_<mode>() that also takes a reference on the instance
into_mode_takes_ref(s, m) ==
    [s EXCEPT !.persel = m, !.modes = @ + 1, !.refcount = fetch_add(@)]

into_mode(s, m) == [s EXCEPT !.persel = m, !.modes = @ + 1]

(***************************************************************************)
(* Initial state: refcount 0 (State::new), no handle, the muxes at none,   *)
(* the clock gated, no personality selected.  The multiplier field is      *)
(* whatever the boot left in it.                                           *)
(***************************************************************************)
BootMults == {0, 255}

InitState(m) ==
    [refcount |-> 0, live |-> 0, fcfclksel |-> "none", frgclksel |-> "none",
     mult |-> m, clk |-> FALSE, persel |-> "no_periph_selected",
     enables |-> 0, disables |-> 0, ungates |-> 0, gates |-> 0, modes |-> 0,
     src |-> "None"]

\* a context that is inside no call
IdlePc == [op |-> "idle", i |-> 0, clk |-> "None", k |-> 0]

Init ==
    /\ \E m \in BootMults : st = [i \in Driven |-> InitState(m)]
    /\ aborted = FALSE
    /\ pending = [c \in Ctx |-> {}]
    /\ calls = 0
    /\ pc = [c \in Ctx |-> IdlePc]

Idle == \A c \in Ctx : pending[c] = {}

(***************************************************************************)
(* Operations, one per handler, each the whole handler.                    *)
(***************************************************************************)
Enable(i, clk) ==
    /\ ~aborted
    /\ Idle
    /\ calls < MaxCalls
    /\ st' = enable_on(st, i, clk)
    /\ aborted' = ~new_assert(st[StateOf(i)].refcount)
    /\ calls' = calls + 1
    /\ UNCHANGED <<pending, pc>>

Clone(i, cap) ==
    /\ ~aborted
    /\ Idle
    /\ st[StateOf(i)].live > 0
    /\ st[StateOf(i)].live < cap
    /\ st' = clone_on(st, i)
    /\ UNCHANGED <<aborted, pending, calls, pc>>

Drop(i) ==
    /\ ~aborted
    /\ Idle
    /\ st[StateOf(i)].live > 0
    /\ st[i].disables < MaxDisables
    /\ st' = drop_on(st, i)
    /\ UNCHANGED <<aborted, pending, calls, pc>>

SelectMode(i, m) ==
    /\ ~aborted
    /\ Idle
    /\ calls < MaxCalls
    /\ i \in IntoMode(m)
    /\ st' = [st EXCEPT ![i] = into_mode(st[i], m)]
    /\ calls' = calls + 1
    /\ UNCHANGED <<aborted, pending, pc>>

Next ==
    \/ \E i \in Driven, clk \in Clock : Enable(i, clk)
    \/ \E i \in Driven : Clone(i, MaxHandles)
    \/ \E i \in Driven : Drop(i)
    \/ \E i \in Driven, m \in Modes : SelectMode(i, m)

Spec == Init /\ [][Next]_vars

(***************************************************************************)
(* The same handlers on one instance, with room for the refcount to wrap.  *)
(***************************************************************************)
NextWide ==
    \/ \E i \in WideDriven, clk \in Clock : Enable(i, clk)
    \/ \E i \in WideDriven : Clone(i, WideHandles)
    \/ \E i \in WideDriven : Drop(i)
    \/ \E i \in WideDriven, m \in Modes : SelectMode(i, m)

SpecWide == Init /\ [][NextWide]_vars

(***************************************************************************)
(* The three implementations driven in lockstep: every call is made on     *)
(* FLEXCOMM2, FLEXCOMM14 and FLEXCOMM15 alike.                             *)
(***************************************************************************)
PairEnable(clk) ==
    /\ ~aborted
    /\ Idle
    /\ calls < MaxCalls
    /\ st' = [i \in Driven |-> enable(i, st[i], clk)]
    /\ aborted' = (\E i \in Driven : ~new_assert(st[i].refcount))
    /\ calls' = calls + 1
    /\ UNCHANGED <<pending, pc>>

PairClone ==
    /\ ~aborted
    /\ Idle
    /\ \A i \in Driven : st[i].live > 0 /\ st[i].live < MaxHandles
    /\ st' = [i \in Driven |-> clone(st[i])]
    /\ UNCHANGED <<aborted, pending, calls, pc>>

PairDrop ==
    /\ ~aborted
    /\ Idle
    /\ \A i \in Driven : st[i].live > 0 /\ st[i].disables < MaxDisables
    /\ st' = [i \in Driven |-> drop(i, st[i])]
    /\ UNCHANGED <<aborted, pending, calls, pc>>

NextPair ==
    \/ \E clk \in Clock : PairEnable(clk)
    \/ PairClone
    \/ PairDrop

SpecPair == Init /\ [][NextPair]_vars

(***************************************************************************)
(* Clone and Drop issued from several execution contexts, interleaved at   *)
(* the atomic read-modify-write: drop is fetch_sub, then (disable_fn)().   *)
(***************************************************************************)
CtxClone(c, i, cap) ==
    /\ ~aborted
    /\ pending[c] = {}
    /\ st[StateOf(i)].live > 0
    /\ st[StateOf(i)].live < cap
    /\ st' = clone_on(st, i)
    /\ UNCHANGED <<aborted, pending, calls, pc>>

CtxDropDec(c, i) ==
    /\ ~aborted
    /\ pending[c] = {}
    /\ st[StateOf(i)].live > 0
    /\ st[i].disables < MaxDisables
    /\ st' = drop_dec_on(st, i)
    /\ pending' = [pending EXCEPT ![c] =
                      IF drop_disables(st[StateOf(i)].refcount) THEN {i} ELSE {}]
    /\ UNCHANGED <<aborted, calls, pc>>

CtxDropCall(c, i) ==
    /\ ~aborted
    /\ i \in pending[c]
    /\ st' = disable_on(st, i)
    /\ pending' = [pending EXCEPT ![c] = {}]
    /\ UNCHANGED <<aborted, calls, pc>>

NextConc ==
    \/ \E i \in Driven, clk \in Clock : Enable(i, clk)
    \/ \E c \in Ctx, i \in Driven : CtxClone(c, i, MaxHandles)
    \/ \E c \in Ctx, i \in Driven : CtxDropDec(c, i)
    \/ \E c \in Ctx, i \in Driven : CtxDropCall(c, i)

SpecConc == Init /\ [][NextConc]_vars

NextConcWide ==
    \/ \E i \in WideDriven, clk \in Clock : Enable(i, clk)
    \/ \E c \in Ctx, i \in WideDriven : CtxClone(c, i, WideHandles)
    \/ \E c \in Ctx, i \in WideDriven : CtxDropDec(c, i)
    \/ \E c \in Ctx, i \in WideDriven : CtxDropCall(c, i)

SpecConcWide == Init /\ [][NextConcWide]_vars

(***************************************************************************)
(* The handlers statement by statement.  A context enters a call only      *)
(* when it is inside none.                                                 *)
(***************************************************************************)
\* the call T::enable(clk) and its first statement
StEnableBegin(c, i, clk) ==
    /\ ~aborted
    /\ pc[c] = IdlePc
    /\ calls < MaxCalls
    /\ st' = enable_step(st, i, clk, 1)
    /\ pc' = [pc EXCEPT ![c] = [op |-> "enable", i |-> i, clk |-> clk, k |-> 1]]
    /\ calls' = calls + 1
    /\ UNCHANGED <<aborted, pending>>

\* the next statement of the T::enable a context is inside; the call
\* returns after the fifth, or panics in FlexcommRef::new
StEnableStep(c) ==
    LET p == pc[c]
        s == StateOf(p.i)
    IN  /\ ~aborted
        /\ p.op = "enable"
        /\ st' = enable_step(st, p.i, p.clk, p.k + 1)
        /\ aborted' = /\ st'[s].refcount # st[s].refcount
                      /\ ~new_assert(st[s].refcount)
        /\ pc' = [pc EXCEPT ![c] = IF p.k + 1 = 5 THEN IdlePc
                                   ELSE [p EXCEPT !.k = p.k + 1]]
        /\ UNCHANGED <<pending, calls>>

StClone(c, i) ==
    /\ ~aborted
    /\ pc[c] = IdlePc
    /\ st[StateOf(i)].live > 0
    /\ st[StateOf(i)].live < MaxHandles
    /\ st' = clone_on(st, i)
    /\ UNCHANGED <<aborted, pending, calls, pc>>

\* Drop::drop up to the fetch_sub; k keeps the value it returned
StDropDec(c, i) ==
    /\ ~aborted
    /\ pc[c] = IdlePc
    /\ st[StateOf(i)].live > 0
    /\ st[i].disables < MaxDisables
    /\ st' = drop_dec_on(st, i)
    /\ pc' = [pc EXCEPT ![c] = [op |-> "drop", i |-> i, clk |-> "None",
                                 k |-> st[StateOf(i)].refcount]]
    /\ UNCHANGED <<aborted, pending, calls>>

\* the rest of Drop::drop: the comparison with 1 and the callback
StDropEnd(c) ==
    LET p == pc[c]
    IN  /\ ~aborted
        /\ p.op = "drop"
        /\ st' = IF drop_disables(p.k) THEN disable_on(st, p.i) ELSE st
        /\ pc' = [pc EXCEPT ![c] = IdlePc]
        /\ UNCHANGED <<aborted, pending, calls>>

\* One cooperative executor: a single context, so every call runs to its
\* end before the next begins, and each run drives one instance.
Single == {1}

Solo(i) == \A j \in Driven \ {i} : st[j].ungates = 0 /\ st[j].src = "None"

NextSteps ==
    \/ \E c \in Single, i \in Driven, clk \in Clock :
            Solo(i) /\ StEnableBegin(c, i, clk)
    \/ \E c \in Single : StEnableStep(c)
    \/ \E c \in Single, i \in Driven : StClone(c, i)
    \/ \E c \in Single, i \in Driven : StDropDec(c, i)
    \/ \E c \in Single : StDropEnd(c)

SpecSteps == Init /\ [][NextSteps]_vars

(***************************************************************************)
(* The statements of several contexts interleaved: clone and the two steps *)
(* of drop at any point, enable while no other enable is under way (two    *)
(* enables never overlap each other, only clones and releases).            *)
(***************************************************************************)
NoEnableUnderWay == \A d \in Ctx : pc[d].op # "enable"

NextRace ==
    \/ \E c \in Ctx, i \in Driven, clk \in Clock :
            NoEnableUnderWay /\ StEnableBegin(c, i, clk)
    \/ \E c \in Ctx : StEnableStep(c)
    \/ \E c \in Ctx, i \in Driven : StClone(c, i)
    \/ \E c \in Ctx, i \in Driven : StDropDec(c, i)
    \/ \E c \in Ctx : StDropEnd(c)

SpecRace == Init /\ [][NextRace]_vars

(***************************************************************************)
(* What the documentation expects of the two muxes for each clock source.  *)
(***************************************************************************)
GeneratorFed == {"FcnFrgMain", "FcnFrgPll", "FcnFrgSfro", "FcnFrgFfro"}

ExpectedPrimary(clk) ==
    IF clk \in GeneratorFed THEN "fcn_frg_clk"
    ELSE CASE clk = "Sfro" -> "sfro_clk"
           [] clk = "Ffro" -> "ffro_clk"
           [] clk = "AudioPll" -> "audio_pll_clk"
           [] clk = "Master" -> "master_clk"
           [] clk = "None" -> "none"

ExpectedGenerator(clk) ==
    CASE clk = "FcnFrgMain" -> "main_clk"
      [] clk = "FcnFrgPll" -> "frg_pll_clk"
      [] clk = "FcnFrgSfro" -> "sfro_clk"
      [] clk = "FcnFrgFfro" -> "ffro_clk"
      [] clk \notin GeneratorFed -> "none"

\* the personalities into_<mode>() exists for on instance i
Capability(i) == {m \in Modes : i \in IntoMode(m)}

(***************************************************************************)
(* Claims.                                                                 *)
(***************************************************************************)

\* C1: while the live handles are those of one enable (every earlier cycle
\* has been closed by its disable), releasing a handle runs the disable
\* callback exactly when that release leaves the instance without a live
\* handle: not on an earlier release, and so exactly once over the N+1
\* releases, for every number N of clones.
C1_DisableExactlyOnLastRelease ==
    [][\A i \in Driven :
          (Drop(i) /\ st[i].enables = st[i].disables + 1) =>
              st'[i].disables =
                  st[i].disables + (IF st'[i].live = 0 THEN 1 ELSE 0)]_vars

\* C2: enable on an instance whose refcount is 0 returns a handle and leaves
\* the refcount at 1; enable on an instance whose refcount is not 0 aborts
\* and returns no handle.
C2_EnableOnceOrAbort ==
    [][\A i \in Driven :
          st'[i].ungates # st[i].ungates =>
              IF st[i].refcount = 0
              THEN /\ ~aborted'
                   /\ st'[i].refcount = 1
                   /\ st'[i].live = st[i].live + 1
                   /\ st'[i].enables = st[i].enables + 1
              ELSE /\ aborted'
                   /\ st'[i].live = st[i].live
                   /\ st'[i].enables = st[i].enables]_vars

C2_Witness ==
    /\ aborted
    /\ st[14].enables = 1
    /\ st[14].live = 2
    /\ st[14].ungates = 2

\* C3: between operations the refcount of an instance equals the number of
\* its live handles (so a live handle implies refcount >= 1).
C3_RefcountIsLiveHandles ==
    ~aborted =>
        \A i \in Driven :
            /\ st[i].refcount = st[i].live
            /\ (st[i].live >= 1 => st[i].refcount >= 1)

\* C4: between operations an instance with a live handle is enabled, with
\* the mux configuration of its most recent enable, and an instance whose
\* handles have all been released has both muxes at none and is gated.
C4_LiveIffEnabled ==
    ~aborted =>
        \A i \in Driven :
            /\ st[i].live > 0 =>
                  /\ st[i].clk
                  /\ st[i].fcfclksel = ExpectedPrimary(st[i].src)
                  /\ st[i].frgclksel = ExpectedGenerator(st[i].src)
            /\ (st[i].live = 0 /\ st[i].enables > 0) =>
                  /\ ~st[i].clk
                  /\ st[i].fcfclksel = "none"
                  /\ st[i].frgclksel = "none"

\* C5: immediately after enable(instance, source) the primary mux and the
\* generator mux hold the values the source stands for, whatever they held
\* before.
C5_EnableMuxes ==
    [][\A i \in Driven :
          st'[i].ungates # st[i].ungates =>
              /\ st'[i].fcfclksel = ExpectedPrimary(st'[i].src)
              /\ st'[i].frgclksel = ExpectedGenerator(st'[i].src)]_vars

C5_Witness ==
    /\ ~aborted
    /\ st[14].enables = 2
    /\ st[14].src = "FcnFrgPll"
    /\ st[14].live = 1
    /\ st[14].fcfclksel = "fcn_frg_clk"
    /\ st[14].frgclksel = "frg_pll_clk"

\* C6: a run of the disable sequence leaves both muxes at none and has
\* called the collaborator's gate/reset-assert once, whatever the source of
\* the preceding enable.
C6_DisableMuxesNone ==
    [][\A i \in Driven :
          st'[i].disables # st[i].disables =>
              /\ st'[i].fcfclksel = "none"
              /\ st'[i].frgclksel = "none"
              /\ ~st'[i].clk
              /\ st'[i].gates = st[i].gates + 1]_vars

C6_Witness ==
    /\ st[15].disables = 1
    /\ st[15].src = "FcnFrgFfro"
    /\ st[15].live = 0
    /\ st[15].frgclksel = "none"
    /\ st[2].disables = 1
    /\ st[2].src = "AudioPll"

\* C7: driven by the same calls, FLEXCOMM14 and FLEXCOMM15 show the same
\* muxes, multiplier, collaborator calls, refcount and disable runs as the
\* macro generated FLEXCOMM2.
C7_SpecialLikeUniform ==
    \A i \in Special :
        /\ st[i].fcfclksel = st[2].fcfclksel
        /\ st[i].frgclksel = st[2].frgclksel
        /\ st[i].mult = st[2].mult
        /\ st[i].clk = st[2].clk
        /\ st[i].ungates = st[2].ungates
        /\ st[i].gates = st[2].gates
        /\ st[i].refcount = st[2].refcount
        /\ st[i].live = st[2].live
        /\ st[i].disables = st[2].disables

C7_Witness ==
    /\ st[14].enables = 2
    /\ st[14].disables = 1
    /\ st[14].src = "AudioPll"
    /\ st[14].fcfclksel = "audio_pll_clk"
    /\ st[2].fcfclksel = "audio_pll_clk"
    /\ st[14].live = 2

\* C8: into_<mode>() exists for every personality on a macro generated
\* instance and for exactly one personality on each special instance, is
\* callable for exactly those pairs, and writes the requested personality.
\* (The table is static: it is examined before the first call.)
C8_ModeCapability ==
    [][/\ calls = 0 =>
             /\ \A i \in Uniform : Capability(i) = Modes
             /\ \A i \in Special : Cardinality(Capability(i)) = 1
             /\ \A m \in Modes : IntoMode(m) \subseteq Instances
       /\ (~aborted /\ calls < MaxCalls) =>
             \A i \in Driven, m \in Modes :
                 ENABLED SelectMode(i, m) <=>
                     (i \in Uniform \/ Capability(i) = {m})
       /\ \A i \in Driven :
             st'[i].modes # st[i].modes =>
                 \A m \in Modes :
                     SelectMode(i, m) =>
                         (m \in Capability(i) /\ st'[i].persel = m)]_vars

C8_Witness ==
    /\ st[14].persel = "spi"
    /\ st[14].modes = 1
    /\ st[2].persel = "i2s_receive"

\* C9: an into_<mode>() call is possible whatever the refcount, changes the
\* personality field and nothing else of the instance, and neither runs
\* the disable callback nor aborts.
C9_ModeFrame ==
    [][/\ (~aborted /\ calls < MaxCalls) =>
             \A i \in Driven, m \in Modes :
                 i \in IntoMode(m) => ENABLED SelectMode(i, m)
       /\ \A i \in Driven :
             st'[i].modes # st[i].modes =>
                 \A m \in Modes :
                     SelectMode(i, m) =>
                         /\ st'[i].persel = m
                         /\ st'[i].refcount = st[i].refcount
                         /\ st'[i].live = st[i].live
                         /\ st'[i].fcfclksel = st[i].fcfclksel
                         /\ st'[i].frgclksel = st[i].frgclksel
                         /\ st'[i].mult = st[i].mult
                         /\ st'[i].clk = st[i].clk
                         /\ st'[i].gates = st[i].gates
                         /\ st'[i].ungates = st[i].ungates
                         /\ st'[i].disables = st[i].disables
                         /\ aborted' = aborted]_vars

C9_Witness ==
    /\ st[2].modes = 1
    /\ st[2].persel = "i2c"
    /\ st[2].live = 2
    /\ st[2].refcount = 2
    /\ st[2].clk

\* C10: with clone and drop interleaved at the atomic operation, and the
\* live handles those of one enable, a context calls the disable callback
\* only when no handle of the instance is live, and no other context is
\* about to call it for the same cycle.
C10_DisableByOneReleaser ==
    [][\A c \in Ctx, i \in Driven :
          (CtxDropCall(c, i) /\ st[i].enables = st[i].disables + 1) =>
              /\ st[i].live = 0
              /\ \A d \in Ctx \ {c} : i \notin pending[d]]_vars

\* C11 (as stated): enable/disable and a refcount exist for exactly sixteen
\* instances, fourteen macro generated and two special.
C11_SixteenInstances ==
    /\ Cardinality(Instances) = 16
    /\ Cardinality(Uniform) = 14
    /\ Cardinality(Special) = 2
    /\ DOMAIN st \subseteq Instances

\* C11 (amended): enable/disable and a refcount exist for exactly ten
\* instances, the eight macro generated 0..7 and the two special 14 and 15,
\* and no call ever gives state to another one.
C11_TenInstances ==
    /\ Cardinality(Instances) = 10
    /\ Cardinality(Uniform) = 8
    /\ Cardinality(Special) = 2
    /\ Uniform \cap Special = {}
    /\ DOMAIN st \subseteq Instances
    /\ \A i \in DOMAIN st : st[i].enables > 0 => i \in Uniform \cup Special

C11_Witness ==
    /\ st[2].enables = 1
    /\ st[14].enables = 1
    /\ st[2].live = 1
    /\ st[14].live = 1

\* C12: a release that finds the refcount at k > 1 leaves it at k - 1 and
\* changes nothing else: the disable callback is not invoked, and the muxes,
\* the multiplier, the clock gate and the personality of the instance stay
\* as they were, from the decrement to the return of the release.
C12_NonFinalReleaseFrame ==
    [][\A c \in Ctx :
          LET p == pc[c]
              q == pc'[c]
          IN  /\ (p.op = "idle" /\ q.op = "drop" /\ st[q.i].refcount > 1) =>
                    /\ st'[q.i].refcount = st[q.i].refcount - 1
                    /\ st'[q.i].live = st[q.i].live - 1
                    /\ st' = [st EXCEPT ![q.i].refcount = st'[q.i].refcount,
                                        ![q.i].live = st'[q.i].live]
                    /\ aborted' = aborted
              /\ (p.op = "drop" /\ st[p.i].refcount >= 1) =>
                    /\ q = IdlePc
                    /\ st' = st
                    /\ aborted' = aborted]_vars

\* enable, clone, and a release that has decremented 2 -> 1 and is returning
C12_Witness ==
    \E c \in Ctx :
        /\ pc[c].op = "drop"
        /\ pc[c].i = 2
        /\ st[2].refcount = 1
        /\ st[2].live = 1
        /\ st[2].clk
        /\ st[2].fcfclksel = "sfro_clk"
        /\ st[2].disables = 0

\* C13: inside one enable call the statements run in this order: primary
\* mux, generator mux, multiplier (0), enable-and-reset of the collaborator,
\* and last the handle construction, which checks that the refcount is 0 and
\* makes it 1.  Each statement changes only its own register; so the clock
\* is already ungated and the registers already hold the values of this
\* call when the refcount is checked and leaves 0.
C13_EnableOrder ==
    [][\A c \in Ctx :
          LET p == pc[c]
              q == pc'[c]
              i == IF p.op = "enable" THEN p.i ELSE q.i
              clk == IF p.op = "enable" THEN p.clk ELSE q.clk
              s == st[i]
              t == st'[i]
          IN  /\ (p.op = "idle" /\ q.op = "enable") =>
                    /\ q.k = 1
                    /\ t.fcfclksel = ExpectedPrimary(clk)
                    /\ t = [s EXCEPT !.fcfclksel = t.fcfclksel, !.src = clk]
                    /\ aborted' = aborted
              /\ (p.op = "enable" /\ p.k = 1) =>
                    /\ q = [p EXCEPT !.k = 2]
                    /\ t.frgclksel = ExpectedGenerator(clk)
                    /\ t = [s EXCEPT !.frgclksel = t.frgclksel]
                    /\ aborted' = aborted
              /\ (p.op = "enable" /\ p.k = 2) =>
                    /\ q = [p EXCEPT !.k = 3]
                    /\ t = [s EXCEPT !.mult = 0]
                    /\ aborted' = aborted
              /\ (p.op = "enable" /\ p.k = 3) =>
                    /\ q = [p EXCEPT !.k = 4]
                    /\ t = [s EXCEPT !.clk = TRUE, !.ungates = s.ungates + 1]
                    /\ aborted' = aborted
              /\ (p.op = "enable" /\ p.k = 4) =>
                    /\ q = IdlePc
                    /\ s.clk
                    /\ s.fcfclksel = ExpectedPrimary(clk)
                    /\ s.frgclksel = ExpectedGenerator(clk)
                    /\ s.mult = 0
                    /\ IF s.refcount = 0
                       THEN /\ ~aborted'
                            /\ t = [s EXCEPT !.refcount = 1,
                                             !.live = s.live + 1,
                                             !.enables = s.enables + 1]
                       ELSE /\ aborted'
                            /\ t = [s EXCEPT !.refcount = t.refcount]
              /\ (p.op = "enable" /\ t.refcount # s.refcount) => p.k = 4]_vars

\* FLEXCOMM14 inside enable(FcnFrgMain): muxes and multiplier written, clock
\* ungated, refcount still 0
C13_Witness ==
    \E c \in Ctx :
        /\ pc[c] = [op |-> "enable", i |-> 14, clk |-> "FcnFrgMain", k |-> 4]
        /\ st[14].fcfclksel = "fcn_frg_clk"
        /\ st[14].frgclksel = "main_clk"
        /\ st[14].mult = 0
        /\ st[14].clk
        /\ st[14].ungates = 1
        /\ st[14].refcount = 0
        /\ st[14].live = 0

\* C14: enable cycles repeat: the disable callback is invoked only by a
\* final release (the step that takes the live handles from 1 to 0, after
\* which the refcount is 0), every final release invokes it once, so its
\* invocations count the completed cycles, and an enable that follows a
\* completed cycle succeeds with refcount 1, whatever its source.
C14_CyclesRepeat ==
    [][\A i \in Driven :
          /\ st'[i].disables # st[i].disables =>
                /\ st[i].live = 1
                /\ st'[i].live = 0
                /\ st'[i].refcount = 0
                /\ st'[i].disables = st[i].disables + 1
          /\ (st[i].live = 1 /\ st'[i].live = 0) =>
                st'[i].disables = st[i].disables + 1
          /\ (st[i].live = 0 /\ st[i].disables > 0
                /\ st'[i].ungates # st[i].ungates) =>
                /\ ~aborted'
                /\ st'[i].refcount = 1
                /\ st'[i].live = 1
                /\ st'[i].enables = st[i].enables + 1]_vars

\* C15: enable with the source None is accepted like any other source: on an
\* instance with refcount 0 it does not abort, writes none to both muxes,
\* still ungates and resets the instance, and returns a handle with refcount
\* 1; the release of the last handle of that cycle invokes disable, once.
C15_EnableNoneAccepted ==
    [][\A i \in Driven :
          /\ (st'[i].ungates # st[i].ungates /\ st'[i].src = "None"
                /\ st[i].refcount = 0) =>
                /\ ~aborted'
                /\ st'[i].fcfclksel = "none"
                /\ st'[i].frgclksel = "none"
                /\ st'[i].clk
                /\ st'[i].ungates = st[i].ungates + 1
                /\ st'[i].refcount = 1
                /\ st'[i].live = st[i].live + 1
                /\ st'[i].enables = st[i].enables + 1
          /\ (st[i].src = "None" /\ st[i].live = 1 /\ st'[i].live = 0) =>
                /\ st'[i].disables = st[i].disables + 1
                /\ st'[i].gates = st[i].gates + 1
                /\ ~st'[i].clk]_vars

\* FLEXCOMM2 after enable(None) and the release of its handle
C15_Witness ==
    /\ st[2].src = "None"
    /\ st[2].enables = 1
    /\ st[2].ungates = 1
    /\ st[2].live = 0
    /\ st[2].refcount = 0
    /\ st[2].disables = 1
    /\ st[2].gates = 1

\* a call of enable, clone, release or into_<mode> on instance i.  Clone and
\* release leave the call count alone, enable and into_<mode> advance it; an
\* enable leaves its source in src and an into_<mode> its mode in persel, so
\* only that one argument has to be tried.
OpOn(i) ==
    IF calls' = calls
    THEN Clone(i, MaxHandles) \/ Drop(i)
    ELSE \/ Enable(i, st'[i].src)
         \/ st'[i].persel \in Modes /\ SelectMode(i, st'[i].persel)

\* C16: instances are independent: enable, clone, release and into_<mode> on
\* instance i leave the refcount, the muxes, the clock gate, the
\* personality and the disable count of every other instance as they were
\* (so the last release of i runs the disable sequence of i and of no other).
C16_InstancesIndependent ==
    [][\A i \in Driven :
          (\E j \in Driven \ {i} : st'[j] # st[j]) => ~OpOn(i)]_vars

\* FLEXCOMM14 enabled and released to the end while FLEXCOMM2 holds two handles
C16_Witness ==
    /\ st[2].live = 2
    /\ st[2].refcount = 2
    /\ st[2].clk
    /\ st[2].fcfclksel = "ffro_clk"
    /\ st[2].disables = 0
    /\ st[14].enables = 1
    /\ st[14].live = 0
    /\ st[14].disables = 1
    /\ ~st[14].clk
    /\ st[15].ungates = 0

\* C17 (as stated): an enable call on an instance whose refcount is not 0
\* aborts without having changed any state: refcount, primary mux, generator
\* mux and clock gate / reset are as they were before the call.
C17_AbortChangesNothing ==
    [][(aborted' /\ ~aborted) =>
          \A i \in Driven :
              /\ st'[i].refcount = st[i].refcount
              /\ st'[i].fcfclksel = st[i].fcfclksel
              /\ st'[i].frgclksel = st[i].frgclksel
              /\ st'[i].clk = st[i].clk
              /\ st'[i].ungates = st[i].ungates]_vars

\* C17 (amended): an enable call on an instance whose refcount is not 0
\* aborts only at the end of the call: by then both muxes and the multiplier
\* hold the values of the aborted call's source, the instance has been
\* ungated and reset once more, and the refcount has been incremented; no
\* handle is made, and no other instance is touched.
C17_AbortAfterWrites ==
    [][(aborted' /\ ~aborted) =>
          \E i \in Driven :
              /\ st[i].refcount # 0
              /\ st'[i].fcfclksel = ExpectedPrimary(st'[i].src)
              /\ st'[i].frgclksel = ExpectedGenerator(st'[i].src)
              /\ st'[i].mult = 0
              /\ st'[i].clk
              /\ st'[i].ungates = st[i].ungates + 1
              /\ st'[i].refcount = (st[i].refcount + 1) % RefcountModulus
              /\ st'[i].live = st[i].live
              /\ st'[i].enables = st[i].enables
              /\ st'[i].disables = st[i].disables
              /\ \A j \in Driven \ {i} : st'[j] = st[j]]_vars

\* FLEXCOMM2 enabled from the slow oscillator, then enable(FcnFrgMain) aborted
C17_Witness ==
    /\ aborted
    /\ st[2].src = "FcnFrgMain"
    /\ st[2].fcfclksel = "fcn_frg_clk"
    /\ st[2].frgclksel = "main_clk"
    /\ st[2].refcount = 2
    /\ st[2].live = 1
    /\ st[2].enables = 1
    /\ st[2].ungates = 2

\* C18: with enable of an instance in one context interleaved with the final
\* release of the previous cycle in another (release: the decrement that
\* reads 1, then the disable callback; enable: register writes, reset
\* release, then refcount 0 -> 1), no state is reached in which a handle is
\* live while a disable callback has left the muxes of the instance at none
\* and its clock gated.
C18_HandleMeansEnabled ==
    \A i \in Driven :
        ~(/\ st[i].live > 0
          /\ st[i].disables > 0
          /\ ~st[i].clk
          /\ st[i].fcfclksel = "none"
          /\ st[i].frgclksel = "none")

====
